---- MODULE Spec2Model ----
(***************************************************************************)
(* Trading journal (src/app.py): a Flask application over three tables     *)
(* (User, Transaction, DailyTrade) with HS256 bearer tokens, a balance     *)
(* aggregation and a pass-through call to a generative-AI endpoint.        *)
(*                                                                         *)
(* Each HTTP request runs in a worker.  A read-only request (login,        *)
(* dashboard, GET /daily) is one step.  A mutating request is two steps:   *)
(* the handler body up to db.session.add (reads, parsing, the pending row  *)
(* kept in the worker's session) and db.session.commit(), so requests of   *)
(* different workers interleave between the read and the commit.  The      *)
(* response of a request is held in `last` until it is sent.                *)
(* Money is kept in cents (Numeric(12,2)); form values are the strings     *)
(* the client sends.  The queries of one dashboard request read one        *)
(* snapshot of the tables; the commit of a DailyTrade writes the four      *)
(* columns the handler assigned; username lookups compare strings exactly. *)
(***************************************************************************)
EXTENDS Integers, Sequences, FiniteSets, TLC

VARIABLES users, transactions, trades, issued, reqs, last, gemini_key,
          registered, acked, nreq

vars == <<users, transactions, trades, issued, reqs, last, gemini_key,
          registered, acked, nreq>>

db == <<users, transactions, trades>>

----------------------------------------------------------------------------
(* Bounds and input domains *)

MaxRequests == 4

Workers == {1, 2}
Usernames == {"alice", "bob"}
Passwords == {"pw1", "pw2"}
Days == {"2024-01-01", "2024-01-02"}
BadDay == "01/02/2024"
Missing == "<missing>"
UserIds == 1..Cardinality(Usernames)
None == 0

JWT_SECRET == "server-secret"
OtherSecret == "other-secret"

AmountTexts == {"1000.00", "200.00", "-5.00", "abc", Missing}

RegisterForms ==
    [username : Usernames, password : Passwords]
    \cup {[username |-> Missing, password |-> "pw1"],
          [username |-> "alice", password |-> Missing]}

LoginForms == RegisterForms

FormFull  == [profit |-> "50.00", loss |-> "10.00",
              reason_profit |-> "trend", reason_loss |-> "fomo"]
FormZero  == [profit |-> "0", loss |-> "0",
              reason_profit |-> "", reason_loss |-> ""]
FormNoLoss == [profit |-> "50.00", loss |-> Missing,
               reason_profit |-> "trend", reason_loss |-> "fomo"]
DailyForms == {FormFull, FormZero, FormNoLoss}
NoForm == [profit |-> "", loss |-> "", reason_profit |-> "", reason_loss |-> ""]

GeminiOutcomes == {"network_error", "http_error", "malformed_body", "ok"}

----------------------------------------------------------------------------
(* Conversions *)

\* float(request.form['amount']) followed by the Numeric(12,2) column: cents
IsFloat(s) == s \in {"1000.00", "200.00", "-5.00", "50.00", "10.00", "0"}

Float(s) ==
    CASE s = "1000.00" -> 100000
      [] s = "200.00"  -> 20000
      [] s = "-5.00"   -> -500
      [] s = "50.00"   -> 5000
      [] s = "10.00"   -> 1000
      [] OTHER         -> 0

\* date.fromisoformat(day)
IsIsoDate(day) == day \in Days

\* hashlib.sha256(password.encode()).hexdigest()
sha256(p) == <<"sha256", p>>

set_password(password) == sha256(password)

\* the stored hash tested for truth instead of compared
check_password_truthy(user, password) == user.password_hash # <<>>

check_password(user, password) == user.password_hash = sha256(password)

----------------------------------------------------------------------------
(* Tokens and the Authorization header *)

NoToken == [user_id |-> None, key |-> ""]

Tokens == [user_id : UserIds, key : {JWT_SECRET, OtherSecret}]

\* jwt.encode({'user_id': user_id, 'iat': now}, JWT_SECRET, 'HS256'); the
\* issue time is never read back and no expiry is set
generate_token(user_id) == [user_id |-> user_id, key |-> JWT_SECRET]

\* decoding without verifying the signature
jwt_decode_unverified(tok) == TRUE

\* jwt.decode(tok, JWT_SECRET, algorithms=['HS256']) succeeds
jwt_decode_ok(tok) == tok.key = JWT_SECRET

\* request.headers.get('Authorization','').split()
HeaderAbsent == <<>>
HeaderBasic  == <<"Basic", NoToken>>
Bearer(tok)  == <<"Bearer", tok>>

\* tokens signed without the server's secret
ForgedTokens == {t \in Tokens : t.key # JWT_SECRET}

\* headers a client can present: a client holds the tokens the server
\* issued and whatever it signs itself
ClientHeaders == {HeaderAbsent, HeaderBasic}
                 \cup {Bearer(t) : t \in issued \cup ForgedTokens}

\* the headers of clients that either send none or one the server issued
JournalHeaders == {HeaderAbsent} \cup {Bearer(t) : t \in issued}

\* every header value, whoever produced it
AllHeaders == {HeaderAbsent, HeaderBasic} \cup {Bearer(t) : t \in Tokens}

\* User.query.get(id)
UserGet(id) == IF \E u \in users : u.id = id THEN id ELSE None

\* User.query.filter_by(username=username).first()
UserByName(username) == {u \in users : u.username = username}

auth_required(hdr) ==
    IF Len(hdr) = 2 /\ hdr[1] = "Bearer"
    THEN IF jwt_decode_ok(hdr[2])
         THEN [ok |-> TRUE, status |-> 200, msg |-> "",
               user |-> UserGet(hdr[2].user_id)]
         ELSE [ok |-> FALSE, status |-> 401, msg |-> "Invalid token",
               user |-> None]
    ELSE [ok |-> FALSE, status |-> 401,
          msg |-> "Missing/invalid Authorization header", user |-> None]

----------------------------------------------------------------------------
(* Responses and worker state *)

SqlNull == [null |-> TRUE, v |-> 0]
SqlVal(x) == [null |-> FALSE, v |-> x]

NoDash == [active_balance |-> 0, total_pl |-> 0,
           deposit_amt |-> SqlNull, withdraw_amt |-> SqlNull,
           tips |-> "", lessons |-> "", calls |-> 0]

NoResp == [route |-> "none", method |-> "", status |-> 0,
           msg |-> "", hdr |-> HeaderAbsent, user |-> None, ran |-> FALSE,
           token |-> NoToken, dash |-> NoDash, username |-> "",
           password |-> "", amount |-> "", day |-> "", rec |-> None,
           form |-> NoForm]

Idle == [pc |-> "idle", route |-> "", hdr |-> HeaderAbsent, user |-> None,
         username |-> "", password |-> "", amount |-> "", day |-> "",
         rec |-> None, form |-> NoForm]

\* the response of a request
Respond(r) == last' = r

\* a worker accepts a request when the previous response has been sent;
\* requests go to the first idle worker
Accepts(w) ==
    /\ last = NoResp
    /\ reqs[w].pc = "idle"
    /\ \A v \in Workers : v < w => reqs[v].pc # "idle"
    /\ nreq < MaxRequests
    /\ nreq' = nreq + 1

\* a worker in flight reaches its commit
Commits(w, routes) ==
    /\ last = NoResp
    /\ reqs[w].pc = "commit"
    /\ reqs[w].route \in routes
    /\ UNCHANGED nreq

\* Flask: an uncaught HTTPException is its own response, anything else 500
flask_status(exc) == IF exc = "BadRequestKeyError" THEN 400 ELSE 500

Fail(route, method, hdr, user, exc) ==
    [NoResp EXCEPT !.route = route, !.method = method, !.hdr = hdr,
                   !.user = user, !.ran = TRUE,
                   !.status = flask_status(exc), !.msg = exc]

Denied(route, method, hdr, a) ==
    [NoResp EXCEPT !.route = route, !.method = method, !.hdr = hdr,
                   !.status = a.status, !.msg = a.msg]

----------------------------------------------------------------------------
Init ==
    /\ users = {}
    /\ transactions = {}
    /\ trades = {}
    /\ issued = {}
    /\ reqs = [w \in Workers |-> Idle]
    /\ last = NoResp
    /\ gemini_key \in {"", "api-key"}
    /\ registered = {}
    /\ acked = {}
    /\ nreq = 0

----------------------------------------------------------------------------
(* POST /register *)

register(w, form) ==
    /\ Accepts(w)
    /\ UNCHANGED <<users, transactions, trades, issued, gemini_key,
                   registered, acked>>
    /\ IF form.username = Missing \/ form.password = Missing
       THEN \* except Exception: rollback, 500
            /\ Respond([NoResp EXCEPT !.route = "register", !.method = "POST",
                          !.status = 500, !.msg = "BadRequestKeyError"])
            /\ UNCHANGED reqs
       ELSE IF UserByName(form.username) # {}
       THEN /\ Respond([NoResp EXCEPT !.route = "register",
                          !.method = "POST", !.status = 400,
                          !.msg = "Username already exists",
                          !.username = form.username,
                          !.password = form.password])
            /\ UNCHANGED reqs
       ELSE /\ reqs' = [reqs EXCEPT ![w] =
                          [Idle EXCEPT !.pc = "commit", !.route = "register",
                                       !.username = form.username,
                                       !.password = form.password]]
            /\ last' = NoResp

\* the column without unique=True
username_not_unique(rows, username) == TRUE

\* username = db.Column(..., unique=True)
username_unique(rows, username) == \A u \in rows : u.username # username

\* db.session.commit() of the new User
register_commit(w) ==
    /\ Commits(w, {"register"})
    /\ reqs' = [reqs EXCEPT ![w] = Idle]
    /\ UNCHANGED <<transactions, trades, issued, gemini_key, acked>>
    /\ IF ~username_unique(users, reqs[w].username)
       THEN \* IntegrityError: rollback, 500
            /\ Respond([NoResp EXCEPT !.route = "register", !.method = "POST",
                          !.status = 500, !.msg = "IntegrityError",
                          !.username = reqs[w].username,
                          !.password = reqs[w].password])
            /\ UNCHANGED <<users, registered>>
       ELSE LET id == Cardinality(users) + 1 IN
            /\ users' = users \cup
                  {[id |-> id, username |-> reqs[w].username,
                    password_hash |-> set_password(reqs[w].password)]}
            /\ registered' = registered \cup
                  {[id |-> id, username |-> reqs[w].username,
                    password |-> reqs[w].password]}
            /\ Respond([NoResp EXCEPT !.route = "register", !.method = "POST",
                          !.status = 302, !.msg = "/login",
                          !.username = reqs[w].username,
                          !.password = reqs[w].password])

----------------------------------------------------------------------------
(* POST /login *)

login(w, form) ==
    /\ Accepts(w)
    /\ UNCHANGED <<users, transactions, trades, reqs, gemini_key,
                   registered, acked>>
    /\ IF form.username = Missing \/ form.password = Missing
       THEN /\ Respond([NoResp EXCEPT !.route = "login", !.method = "POST",
                          !.status = 500, !.msg = "BadRequestKeyError"])
            /\ UNCHANGED issued
       ELSE LET found == UserByName(form.username) IN
            IF \E u \in found : check_password(u, form.password)
            THEN LET user == CHOOSE u \in found : TRUE
                     token == generate_token(user.id) IN
                 /\ issued' = issued \cup {token}
                 /\ Respond([NoResp EXCEPT !.route = "login",
                               !.method = "POST", !.status = 200,
                               !.msg = "token", !.token = token,
                               !.username = form.username,
                               !.password = form.password])
            ELSE /\ Respond([NoResp EXCEPT !.route = "login",
                               !.method = "POST", !.status = 401,
                               !.msg = "Bad credentials",
                               !.username = form.username,
                               !.password = form.password])
                 /\ UNCHANGED issued

----------------------------------------------------------------------------
(* POST /deposit and POST /withdraw *)

transact(w, type, hdr, amount) ==
    LET a == auth_required(hdr) IN
    /\ Accepts(w)
    /\ UNCHANGED <<users, transactions, trades, issued, gemini_key,
                   registered, acked>>
    /\ IF ~a.ok
       THEN Respond(Denied(type, "POST", hdr, a)) /\ UNCHANGED reqs
       ELSE IF amount = Missing
       THEN /\ Respond(Fail(type, "POST", hdr, a.user, "BadRequestKeyError"))
            /\ UNCHANGED reqs
       ELSE IF ~IsFloat(amount)
       THEN /\ Respond(Fail(type, "POST", hdr, a.user, "ValueError"))
            /\ UNCHANGED reqs
       ELSE IF a.user = None
       THEN /\ Respond(Fail(type, "POST", hdr, a.user, "AttributeError"))
            /\ UNCHANGED reqs
       ELSE /\ reqs' = [reqs EXCEPT ![w] =
                          [Idle EXCEPT !.pc = "commit", !.route = type,
                                       !.hdr = hdr, !.user = a.user,
                                       !.amount = amount]]
            /\ last' = NoResp

deposit(w, hdr, amount) == transact(w, "deposit", hdr, amount)

withdraw(w, hdr, amount) == transact(w, "withdraw", hdr, amount)

\* a withdrawal stored as a negative amount
NewTransaction_signed(id, user_id, type, amount) ==
    [id |-> id, user_id |-> user_id, type |-> type,
     amount |-> IF type = "withdraw" THEN 0 - Float(amount)
                ELSE Float(amount)]

\* Transaction(user_id=request.user.id, type=..., amount=amt)
NewTransaction(id, user_id, type, amount) ==
    [id |-> id, user_id |-> user_id, type |-> type, amount |-> Float(amount)]

\* the row replacing the user's earlier rows of the same type
InsertTransaction_upsert(table, tx) ==
    {t \in table : ~(t.user_id = tx.user_id /\ t.type = tx.type)} \cup {tx}

\* INSERT of the row
InsertTransaction(table, tx) == table \cup {tx}

\* db.session.commit() of the new Transaction
transact_commit(w) ==
    LET tx == NewTransaction(Cardinality(transactions) + 1, reqs[w].user,
                             reqs[w].route, reqs[w].amount) IN
    /\ Commits(w, {"deposit", "withdraw"})
    /\ transactions' = InsertTransaction(transactions, tx)
    /\ acked' = acked \cup {[id |-> tx.id, user_id |-> reqs[w].user,
                             type |-> reqs[w].route,
                             amount |-> reqs[w].amount]}
    /\ reqs' = [reqs EXCEPT ![w] = Idle]
    /\ Respond([NoResp EXCEPT !.route = reqs[w].route, !.method = "POST",
                  !.hdr = reqs[w].hdr, !.user = reqs[w].user, !.ran = TRUE,
                  !.status = 200, !.msg = "ok",
                  !.amount = reqs[w].amount])
    /\ UNCHANGED <<users, trades, issued, gemini_key, registered>>

----------------------------------------------------------------------------
(* GET/POST /daily/<day> *)

\* what the Numeric(12,2) column stores for a submitted decimal string
ToNumeric(s) == Float(s)

\* DailyTrade.query.filter_by(user_id=..., trade_date=d).first()
TradeFirst(user_id, d) ==
    LET found == {t \in trades : t.user_id = user_id /\ t.trade_date = d} IN
    IF found = {} THEN None
    ELSE (CHOOSE t \in found : \A o \in found : t.id <= o.id).id

FormComplete(form) ==
    /\ form.profit # Missing
    /\ form.loss # Missing
    /\ form.reason_profit # Missing
    /\ form.reason_loss # Missing

\* the table as the session sees it after the assignments made before the
\* first missing form field (a new record is not in the session before add)
Assigned(rows, rec, form) ==
    LET f1 == form.profit # Missing
        f2 == f1 /\ form.loss # Missing
        f3 == f2 /\ form.reason_profit # Missing
        f4 == f3 /\ form.reason_loss # Missing IN
    {IF t.id # rec THEN t
     ELSE [t EXCEPT
             !.profit = IF f1 THEN ToNumeric(form.profit) ELSE @,
             !.loss = IF f2 THEN ToNumeric(form.loss) ELSE @,
             !.reason_profit = IF f3 THEN form.reason_profit ELSE @,
             !.reason_loss = IF f4 THEN form.reason_loss ELSE @] : t \in rows}

\* the assignments written through as they are made
session_autocommit(committed, dirty) == dirty

\* an exception before commit: the session is discarded with its changes
session_rollback(committed, dirty) == committed

daily(w, method, day, hdr, form) ==
    LET a == auth_required(hdr) IN
    /\ Accepts(w)
    /\ UNCHANGED <<users, transactions, issued, gemini_key,
                   registered, acked>>
    /\ IF ~a.ok
       THEN /\ Respond(Denied("daily", method, hdr, a))
            /\ UNCHANGED <<reqs, trades>>
       ELSE IF ~IsIsoDate(day)
       THEN /\ Respond(Fail("daily", method, hdr, a.user, "ValueError"))
            /\ UNCHANGED <<reqs, trades>>
       ELSE IF a.user = None
       THEN /\ Respond(Fail("daily", method, hdr, a.user, "AttributeError"))
            /\ UNCHANGED <<reqs, trades>>
       ELSE LET rec == TradeFirst(a.user, day) IN
            IF method = "GET"
            THEN /\ Respond([NoResp EXCEPT !.route = "daily",
                               !.method = "GET", !.hdr = hdr,
                               !.user = a.user, !.ran = TRUE,
                               !.status = 200, !.msg = "daily.html",
                               !.day = day, !.rec = rec])
                 /\ UNCHANGED <<reqs, trades>>
            ELSE IF ~FormComplete(form)
            THEN /\ Respond([Fail("daily", method, hdr, a.user,
                                  "BadRequestKeyError")
                               EXCEPT !.day = day, !.rec = rec])
                 /\ trades' = session_rollback(trades,
                                               Assigned(trades, rec, form))
                 /\ UNCHANGED reqs
            ELSE /\ UNCHANGED trades
                 /\ reqs' = [reqs EXCEPT ![w] =
                               [Idle EXCEPT !.pc = "commit",
                                            !.route = "daily", !.hdr = hdr,
                                            !.user = a.user, !.day = day,
                                            !.rec = rec, !.form = form]]
                 /\ last' = NoResp

\* the row a commit writes from the session's record
TradeRow(id, user_id, d, form) ==
    [id |-> id, user_id |-> user_id, trade_date |-> d,
     profit |-> ToNumeric(form.profit), loss |-> ToNumeric(form.loss),
     reason_profit |-> form.reason_profit,
     reason_loss |-> form.reason_loss]

\* the table without the constraint
uix_absent(rows, row) == TRUE

\* UniqueConstraint('user_id','trade_date')
uix_user_date(rows, row) ==
    \A t \in rows : ~(t.user_id = row.user_id /\ t.trade_date = row.trade_date)

\* db.session.commit() of the DailyTrade: INSERT of a new record, or
\* UPDATE of the record read by the handler
daily_commit(w) ==
    LET r == reqs[w]
        ok == [NoResp EXCEPT !.route = "daily", !.method = "POST",
                 !.hdr = r.hdr, !.user = r.user, !.ran = TRUE,
                 !.status = 302, !.msg = "/dashboard", !.day = r.day,
                 !.rec = r.rec, !.form = r.form] IN
    /\ Commits(w, {"daily"})
    /\ reqs' = [reqs EXCEPT ![w] = Idle]
    /\ UNCHANGED <<users, transactions, issued, gemini_key, registered,
                   acked>>
    /\ IF r.rec = None
       THEN LET row == TradeRow(Cardinality(trades) + 1, r.user, r.day,
                                r.form) IN
            IF uix_user_date(trades, row)
            THEN trades' = trades \cup {row} /\ Respond(ok)
            ELSE /\ UNCHANGED trades
                 /\ Respond([Fail("daily", "POST", r.hdr, r.user,
                                  "IntegrityError")
                               EXCEPT !.day = r.day, !.form = r.form])
       ELSE /\ trades' = {IF t.id = r.rec
                          THEN TradeRow(t.id, t.user_id, t.trade_date, r.form)
                          ELSE t : t \in trades}
            /\ Respond(ok)

----------------------------------------------------------------------------
(* Gemini adapter *)

GEMINI_SENTINEL == "Gemini API key not configured"

\* the body of the try block: requests.post, raise_for_status, r.json()[...]
gemini_try(outcome) ==
    CASE outcome = "network_error"  -> "ConnectionError"
      [] outcome = "http_error"     -> "HTTPError"
      [] outcome = "malformed_body" -> "KeyError"
      [] OTHER                      -> ""

\* except requests.RequestException as e
gemini_catches_requests(exc) == exc \in {"ConnectionError", "HTTPError"}

\* except Exception as e
gemini_catches(exc) == TRUE

gemini_error(exc) ==
    CASE exc = "ConnectionError" -> "Error calling Gemini API: ConnectionError"
      [] exc = "HTTPError"       -> "Error calling Gemini API: HTTPError"
      [] OTHER                   -> "Error calling Gemini API: KeyError"

call_gemini(prompt_text, outcome) ==
    IF gemini_key = ""
    THEN [raised |-> FALSE, value |-> GEMINI_SENTINEL, calls |-> 0]
    ELSE LET exc == gemini_try(outcome) IN
         IF exc = ""
         THEN [raised |-> FALSE, value |-> "content", calls |-> 1]
         ELSE IF gemini_catches(exc)
         THEN [raised |-> FALSE, value |-> gemini_error(exc), calls |-> 1]
         ELSE [raised |-> TRUE, value |-> exc, calls |-> 1]

----------------------------------------------------------------------------
(* GET /dashboard *)

RECURSIVE SqlSumRows(_, _)
\* SUM over rows of a column expression; col[t] is the row's term
SqlSumRows(rows, col) ==
    IF rows = {} THEN 0
    ELSE LET t == CHOOSE x \in rows : TRUE IN
         col[t] + SqlSumRows(rows \ {t}, col)

\* func.sum(expr) ... .filter(...): NULL over no rows
SqlSum(rows, col) ==
    IF rows = {} THEN SqlNull ELSE SqlVal(SqlSumRows(rows, col))

\* Python `x or 0`
OrZero(x) == IF x.null \/ x.v = 0 THEN 0 ELSE x.v

CaseDeposit(t) == IF t.type = "deposit" THEN t.amount ELSE 0
CaseWithdraw(t) == IF t.type = "withdraw" THEN t.amount ELSE 0
ColProfit(t) == t.profit
ColLoss(t) == t.loss

\* the filter on the user dropped
Aggregate_AllUsers(user_id) ==
    LET dep_amt  == SqlSum(transactions,
                           [t \in transactions |-> CaseDeposit(t)])
        wd_amt   == SqlSum(transactions,
                           [t \in transactions |-> CaseWithdraw(t)])
        prof_sum == OrZero(SqlSum(trades, [t \in trades |-> ColProfit(t)]))
        loss_sum == OrZero(SqlSum(trades, [t \in trades |-> ColLoss(t)])) IN
    [deposit_amt |-> dep_amt, withdraw_amt |-> wd_amt,
     active_balance |-> OrZero(dep_amt) - OrZero(wd_amt) + prof_sum - loss_sum,
     total_pl |-> prof_sum - loss_sum]

Aggregate(user_id) ==
    LET txs      == {t \in transactions : t.user_id = user_id}
        rows     == {t \in trades : t.user_id = user_id}
        dep_amt  == SqlSum(txs, [t \in txs |-> CaseDeposit(t)])
        wd_amt   == SqlSum(txs, [t \in txs |-> CaseWithdraw(t)])
        prof_sum == OrZero(SqlSum(rows, [t \in rows |-> ColProfit(t)]))
        loss_sum == OrZero(SqlSum(rows, [t \in rows |-> ColLoss(t)])) IN
    [deposit_amt |-> dep_amt, withdraw_amt |-> wd_amt,
     active_balance |-> OrZero(dep_amt) - OrZero(wd_amt) + prof_sum - loss_sum,
     total_pl |-> prof_sum - loss_sum]

\* the prompts: instruction text and the user's non-empty reasons
ProfitPrompt(user_id) ==
    [instruction |-> "Generate trading tips from these profit reasons:",
     reasons |-> {t.reason_profit : t \in
                    {x \in trades : x.user_id = user_id
                                    /\ x.reason_profit # ""}}]

LossPrompt(user_id) ==
    [instruction |-> "Generate trading lessons from these loss reasons:",
     reasons |-> {t.reason_loss : t \in
                    {x \in trades : x.user_id = user_id
                                    /\ x.reason_loss # ""}}]

dashboard(w, hdr, o1, o2) ==
    LET a == auth_required(hdr) IN
    /\ Accepts(w)
    /\ UNCHANGED <<users, transactions, trades, issued, gemini_key,
                   registered, acked, reqs>>
    /\ IF ~a.ok
       THEN Respond(Denied("dashboard", "GET", hdr, a))
       ELSE IF a.user = None
       THEN Respond(Fail("dashboard", "GET", hdr, a.user, "AttributeError"))
       ELSE LET agg     == Aggregate(a.user)
                tips    == call_gemini(ProfitPrompt(a.user), o1)
                lessons == call_gemini(LossPrompt(a.user), o2) IN
            IF tips.raised
            THEN Respond(Fail("dashboard", "GET", hdr, a.user, tips.value))
            ELSE IF lessons.raised
            THEN Respond(Fail("dashboard", "GET", hdr, a.user, lessons.value))
            ELSE Respond([NoResp EXCEPT !.route = "dashboard",
                            !.method = "GET", !.hdr = hdr, !.user = a.user,
                            !.ran = TRUE, !.status = 200,
                            !.msg = "dashboard.html",
                            !.dash = [active_balance |-> agg.active_balance,
                                      total_pl |-> agg.total_pl,
                                      deposit_amt |-> agg.deposit_amt,
                                      withdraw_amt |-> agg.withdraw_amt,
                                      tips |-> tips.value,
                                      lessons |-> lessons.value,
                                      calls |-> tips.calls + lessons.calls]])

----------------------------------------------------------------------------
\* the response leaves the worker
send_response ==
    /\ last # NoResp
    /\ last' = NoResp
    /\ UNCHANGED <<users, transactions, trades, issued, reqs, gemini_key,
                   registered, acked, nreq>>

DayPaths == Days \cup {BadDay}
Methods == {"GET", "POST"}

\* requests of clients that hold the tokens the server issued
Next ==
    \/ \E w \in Workers, form \in RegisterForms : register(w, form)
    \/ \E w \in Workers : register_commit(w)
    \/ \E w \in Workers, form \in LoginForms : login(w, form)
    \/ \E w \in Workers, hdr \in ClientHeaders, amount \in AmountTexts :
           deposit(w, hdr, amount)
    \/ \E w \in Workers, hdr \in ClientHeaders, amount \in AmountTexts :
           withdraw(w, hdr, amount)
    \/ \E w \in Workers : transact_commit(w)
    \/ \E w \in Workers, method \in Methods, day \in DayPaths,
          hdr \in ClientHeaders, form \in DailyForms :
           daily(w, method, day, hdr, form)
    \/ \E w \in Workers : daily_commit(w)
    \/ \E w \in Workers, hdr \in ClientHeaders,
          o1 \in GeminiOutcomes, o2 \in GeminiOutcomes :
           dashboard(w, hdr, o1, o2)
    \/ send_response

Spec == Init /\ [][Next]_vars

\* The database outlives the process: the state in which alice has
\* registered and logged in (reached from Init by two requests), with the
\* Gemini key configured.
InitJournal ==
    /\ users = {[id |-> 1, username |-> "alice",
                 password_hash |-> set_password("pw1")]}
    /\ registered = {[id |-> 1, username |-> "alice", password |-> "pw1"]}
    /\ issued = {generate_token(1)}
    /\ transactions = {}
    /\ trades = {}
    /\ reqs = [w \in Workers |-> Idle]
    /\ last = NoResp
    /\ gemini_key = "api-key"
    /\ acked = {}
    /\ nreq = 0

\* the journal's requests: clients send no header or a token the server
\* issued, and the Gemini endpoint answers
NextJournal ==
    \/ \E w \in Workers, form \in RegisterForms : register(w, form)
    \/ \E w \in Workers : register_commit(w)
    \/ \E w \in Workers, form \in LoginForms : login(w, form)
    \/ \E w \in Workers, hdr \in JournalHeaders, amount \in AmountTexts :
           deposit(w, hdr, amount)
    \/ \E w \in Workers, hdr \in JournalHeaders, amount \in AmountTexts :
           withdraw(w, hdr, amount)
    \/ \E w \in Workers : transact_commit(w)
    \/ \E w \in Workers, method \in Methods, day \in DayPaths,
          hdr \in JournalHeaders, form \in DailyForms :
           daily(w, method, day, hdr, form)
    \/ \E w \in Workers : daily_commit(w)
    \/ \E w \in Workers, hdr \in JournalHeaders :
           dashboard(w, hdr, "ok", "ok")
    \/ send_response

SpecJournal == InitJournal /\ [][NextJournal]_vars

\* requests carrying any header value
NextAnyHeader ==
    \/ \E w \in Workers, form \in RegisterForms : register(w, form)
    \/ \E w \in Workers : register_commit(w)
    \/ \E w \in Workers, form \in LoginForms : login(w, form)
    \/ \E w \in Workers, hdr \in AllHeaders, amount \in AmountTexts :
           deposit(w, hdr, amount)
    \/ \E w \in Workers, hdr \in AllHeaders, amount \in AmountTexts :
           withdraw(w, hdr, amount)
    \/ \E w \in Workers : transact_commit(w)
    \/ \E w \in Workers, method \in Methods, day \in DayPaths,
          hdr \in AllHeaders, form \in DailyForms :
           daily(w, method, day, hdr, form)
    \/ \E w \in Workers : daily_commit(w)
    \/ \E w \in Workers, hdr \in AllHeaders,
          o1 \in GeminiOutcomes, o2 \in GeminiOutcomes :
           dashboard(w, hdr, o1, o2)
    \/ send_response

SpecAnyHeader == Init /\ [][NextAnyHeader]_vars

----------------------------------------------------------------------------
(* Properties *)

\* a request was answered in this step
Answered == last' # NoResp

RECURSIVE Total(_, _)
Total(rows, val) ==
    IF rows = {} THEN 0
    ELSE LET t == CHOOSE x \in rows : TRUE IN
         val[t] + Total(rows \ {t}, val)

DepositsOf(u) == {t \in transactions : t.user_id = u /\ t.type = "deposit"}
WithdrawsOf(u) == {t \in transactions : t.user_id = u /\ t.type = "withdraw"}
TradesOf(u) == {t \in trades : t.user_id = u}
AmountTotal(rows) == Total(rows, [t \in rows |-> t.amount])
ProfitTotal(u) == Total(TradesOf(u), [t \in TradesOf(u) |-> t.profit])
LossTotal(u) == Total(TradesOf(u), [t \in TradesOf(u) |-> t.loss])

\* C1: the dashboard rendered for user U reports
\* active_balance = U's deposits - U's withdrawals + U's profits - U's losses
\* and total_pl = U's profits - U's losses, each total being 0 over no rows
\* and counting only the rows owned by U.
C1_DashboardTotals ==
    (last.route = "dashboard" /\ last.status = 200) =>
        /\ last.dash.active_balance =
              AmountTotal(DepositsOf(last.user))
              - AmountTotal(WithdrawsOf(last.user))
              + ProfitTotal(last.user) - LossTotal(last.user)
        /\ last.dash.total_pl = ProfitTotal(last.user) - LossTotal(last.user)

\* deposit 1000.00, withdraw 200.00, one day with profit 50.00 and loss
\* 10.00: balance 840.00, profit and loss 40.00
C1_Witness ==
    /\ last.route = "dashboard"
    /\ last.status = 200
    /\ DepositsOf(last.user) # {}
    /\ WithdrawsOf(last.user) # {}
    /\ TradesOf(last.user) # {}
    /\ last.dash.active_balance = 84000
    /\ last.dash.total_pl = 4000

\* C2: there is at most one DailyTrade row per (user, date), also when two
\* POSTs for the pair both read "no record" before either commits (the
\* second writer fails); a successful POST for a pair that has a row
\* overwrites profit, loss, reason_profit and reason_loss with the submitted
\* values and leaves the number of rows unchanged.
C2_OnePerDay ==
    \A t1 \in trades, t2 \in trades :
        (t1.user_id = t2.user_id /\ t1.trade_date = t2.trade_date) => t1 = t2

C2_Overwrite ==
    (/\ Answered
     /\ last'.route = "daily" /\ last'.method = "POST" /\ last'.status = 302
     /\ \E t \in trades : t.user_id = last'.user /\ t.trade_date = last'.day)
    => /\ Cardinality(trades') = Cardinality(trades)
       /\ \E t \in trades' :
             /\ t.user_id = last'.user
             /\ t.trade_date = last'.day
             /\ t.profit = ToNumeric(last'.form.profit)
             /\ t.loss = ToNumeric(last'.form.loss)
             /\ t.reason_profit = last'.form.reason_profit
             /\ t.reason_loss = last'.form.reason_loss

C2_UpsertUnique == [](C2_OnePerDay) /\ [][C2_Overwrite]_vars

\* the second of two concurrent first writers has failed on the constraint
C2_Witness ==
    /\ last.route = "daily"
    /\ last.msg = "IntegrityError"
    /\ last.rec = None
    /\ Cardinality({t \in trades : t.user_id = last.user
                                   /\ t.trade_date = last.day}) = 1

\* C3: a POST /register whose username belongs to an existing User answers
\* 400 "Username already exists" whatever the password, creates no row and
\* leaves every User row (so its password_hash) as it was; no two User rows
\* ever share a username, also with two registrations of one new username
\* in flight.
C3_UniqueUsernames ==
    \A u1 \in users, u2 \in users : u1.username = u2.username => u1 = u2

\* a POST /register of (username, some password) starts in this step
RegisterStarts(username) ==
    /\ nreq' # nreq
    /\ \/ last'.route = "register" /\ last'.username = username
       \/ \E w \in Workers : /\ reqs[w].pc = "idle"
                             /\ reqs'[w].pc = "commit"
                             /\ reqs'[w].route = "register"
                             /\ reqs'[w].username = username

C3_Conflict ==
    /\ \A u \in users : u \in users'
    /\ \A name \in Usernames :
          (RegisterStarts(name) /\ \E u \in users : u.username = name)
          => /\ last'.status = 400
             /\ last'.msg = "Username already exists"
             /\ users' = users

C3_RegisterConflict == [](C3_UniqueUsernames) /\ [][C3_Conflict]_vars

\* the username is taken and the password differs from the registered one
C3_Witness ==
    /\ last.route = "register"
    /\ last.status = 400
    /\ \E r \in registered :
          r.username = last.username /\ r.password # last.password

\* C4: a protected handler that runs as user B was given a bearer token
\* signed with the server's secret that embeds B's id and was issued by a
\* login of B; a bearer token signed with another secret is answered
\* 401 "Invalid token".
ProtectedRoutes == {"deposit", "withdraw", "daily", "dashboard"}

IssuedTo(hdr, user_id) ==
    /\ Len(hdr) = 2
    /\ hdr[1] = "Bearer"
    /\ hdr[2].key = JWT_SECRET
    /\ hdr[2].user_id = user_id
    /\ hdr[2] \in issued
    /\ \E r \in registered : r.id = user_id

C4_TokenBinding ==
    /\ (last.route \in ProtectedRoutes /\ last.ran /\ last.user # None)
          => IssuedTo(last.hdr, last.user)
    /\ \A w \in Workers :
          (reqs[w].pc = "commit" /\ reqs[w].route \in ProtectedRoutes)
          => IssuedTo(reqs[w].hdr, reqs[w].user)
    /\ (/\ last.route \in ProtectedRoutes
        /\ Len(last.hdr) = 2 /\ last.hdr[1] = "Bearer"
        /\ last.hdr[2].key # JWT_SECRET)
          => (last.status = 401 /\ last.msg = "Invalid token" /\ ~last.ran)

\* a handler ran as one of two registered users
C4_Witness ==
    /\ last.route \in ProtectedRoutes
    /\ last.ran
    /\ last.status \in {200, 302}
    /\ last.user # None
    /\ Cardinality(users) = 2

\* C5: the body of a protected handler runs only when the token resolved
\* to an existing User; with the header absent or malformed, the signature
\* check failing, or no User row for the embedded id, the request is
\* answered 401 and no row is created or changed.
ResolvesToUser(hdr) ==
    /\ Len(hdr) = 2
    /\ hdr[1] = "Bearer"
    /\ hdr[2].key = JWT_SECRET
    /\ \E u \in users : u.id = hdr[2].user_id

C5_HandlerOnlyForUser ==
    /\ (last.route \in ProtectedRoutes /\ last.ran) => last.user # None
    /\ \A w \in Workers :
          (reqs[w].pc = "commit" /\ reqs[w].route \in ProtectedRoutes)
          => reqs[w].user # None
    /\ (last.route \in ProtectedRoutes /\ ~ResolvesToUser(last.hdr))
          => (last.status = 401 /\ ~last.ran)

C5_DeniedChangesNothing ==
    (Answered /\ last'.status = 401) => db' = db

C5_AuthRequired == [](C5_HandlerOnlyForUser) /\ [][C5_DeniedChangesNothing]_vars

\* C6: POST /login with (username, password) issues a token exactly when a
\* User with that username exists and the password is the one given in the
\* registration that created it, and answers 401 without a token otherwise;
\* the token embeds that User's id, whatever requests came in between.
Credentials(username, password) ==
    {r \in registered : r.username = username /\ r.password = password}

C6_LoginIff ==
    /\ (last.route = "login" /\ last.username # "") =>
          IF Credentials(last.username, last.password) # {}
          THEN /\ last.status = 200
               /\ \E r \in Credentials(last.username, last.password) :
                     last.token = [user_id |-> r.id, key |-> JWT_SECRET]
               /\ last.token \in issued
          ELSE /\ last.status = 401
               /\ last.msg = "Bad credentials"
               /\ last.token = NoToken
    /\ \A t \in issued : \E r \in registered : r.id = t.user_id

C6_NoTokenOnFailure ==
    (Answered /\ last'.route = "login" /\ last'.status # 200)
    => issued' = issued

C6_Login == [](C6_LoginIff) /\ [][C6_NoTokenOnFailure]_vars

\* the second registered user logged in
C6_Witness ==
    /\ last.route = "login"
    /\ last.status = 200
    /\ last.token.user_id = 2
    /\ Cardinality(registered) = 2

\* C7: call_gemini returns a value for every prompt and every outcome of the
\* external call, and the sentinel without a network call when the key is
\* not configured; an authenticated GET /dashboard is rendered whatever the
\* outcomes.
GeminiReturns(r) ==
    /\ ~r.raised
    /\ gemini_key = "" => (r.value = GEMINI_SENTINEL /\ r.calls = 0)

C7_GeminiAbsorbed ==
    /\ \A u \in UserIds, o \in GeminiOutcomes :
          /\ GeminiReturns(call_gemini(ProfitPrompt(u), o))
          /\ GeminiReturns(call_gemini(LossPrompt(u), o))
    /\ (last.route = "dashboard" /\ last.ran /\ last.user # None) =>
          /\ last.status = 200
          /\ gemini_key = "" =>
                /\ last.dash.tips = GEMINI_SENTINEL
                /\ last.dash.lessons = GEMINI_SENTINEL
                /\ last.dash.calls = 0

\* the page is rendered from empty reason lists with a malformed answer
C7_Witness ==
    /\ last.route = "dashboard"
    /\ last.status = 200
    /\ TradesOf(last.user) = {}
    /\ last.dash.tips = "Error calling Gemini API: KeyError"
    /\ last.dash.lessons = "Error calling Gemini API: ConnectionError"

\* C8 as stated: every stored Transaction row has amount >= 0.
C8_NonNegative == \A t \in transactions : t.amount >= 0

IsNegativeText(s) == s = "-5.00"

\* C8 amended: every stored Transaction row holds the amount submitted by
\* the request that created it, so it is negative exactly when a negative
\* amount was submitted.
C8_AmountAsSubmitted ==
    \A t \in transactions :
        \E a \in acked :
            /\ a.id = t.id
            /\ a.type = t.type
            /\ t.amount = Float(a.amount)
            /\ t.amount < 0 <=> IsNegativeText(a.amount)

C8_Witness ==
    /\ \E t \in transactions : t.amount < 0
    /\ \E t \in transactions : t.amount > 0 /\ t.type = "withdraw"

\* C9: a successful POST /deposit (/withdraw) adds exactly one Transaction
\* row with that type, the authenticated user's id and the submitted amount
\* and changes no other row; no step modifies or removes a Transaction row;
\* every acknowledged request has its row, under any interleaving.
TxRoutes == {"deposit", "withdraw"}

C9_AppendOnly ==
    /\ \A t \in transactions : t \in transactions'
    /\ (Answered /\ last'.route \in TxRoutes /\ last'.status = 200) =>
          /\ \E t \in transactions' :
                /\ t \notin transactions
                /\ transactions' = transactions \cup {t}
                /\ t.type = last'.route
                /\ t.user_id = last'.user
                /\ t.amount = Float(last'.amount)
          /\ trades' = trades
          /\ users' = users
    /\ transactions' # transactions =>
          (Answered /\ last'.route \in TxRoutes /\ last'.status = 200)

C9_NoLostUpdate ==
    /\ Cardinality(transactions) = Cardinality(acked)
    /\ \A a \in acked :
          \E t \in transactions :
              /\ t.id = a.id
              /\ t.user_id = a.user_id
              /\ t.type = a.type
              /\ t.amount = Float(a.amount)

C9_Ledger == [](C9_NoLostUpdate) /\ [][C9_AppendOnly]_vars

\* one of two concurrent transactions of a user is acknowledged while the
\* other is still before its commit
C9_Witness ==
    /\ last.route \in TxRoutes
    /\ last.status = 200
    /\ \E w \in Workers : /\ reqs[w].pc = "commit"
                          /\ reqs[w].route \in TxRoutes
                          /\ reqs[w].user = last.user

\* C10 as stated: a mutating request that fails with an exception surfaces
\* an HTTP 500 and leaves the persisted rows exactly as they were.
Exceptions == {"BadRequestKeyError", "ValueError", "IntegrityError",
               "AttributeError"}

MutatingFailure ==
    /\ Answered
    /\ last'.method = "POST"
    /\ last'.route \in {"register", "deposit", "withdraw", "daily"}
    /\ last'.msg \in Exceptions

====
